---- MODULE Spec2Model ----
(***************************************************************************)
(* The resource pool of coh-metrix-dementia (coh/resource_pool.py): a      *)
(* registry of hooks and a two-tier memoizing cache, a pinned tier that    *)
(* is never evicted and an unpinned tier bounded by _cache_limit and       *)
(* evicted from the front.  A call of get is modelled as a stack frame     *)
(* that walks through the lines of ResourcePool.get; a hook that calls     *)
(* get on the same pool pushes a nested frame.                             *)
(***************************************************************************)
EXTENDS Integers, Sequences, FiniteSets, TLC

VARIABLES
    alive,            \* "new" before __init__, then "ready" or "invalid"
    _cache_limit,     \* self._cache_limit
    _hooks,           \* self._hooks: suffix -> hook (NoHook: not a key)
    _pinned,          \* self._pinned: set of suffixes
    _unpinned_cache,  \* self._unpinned_cache: list of entries
    _pinned_cache,    \* self._pinned_cache: list of entries
    stack,            \* per thread: the active get calls, outermost first
    ret,              \* per thread: outcome of the get call that ended last
    calls,            \* history: hook invocations per (suffix, args)
    clock,            \* history: number of entries appended so far
    memo,             \* history: per key, the value last read and not evicted since
    lasthit,          \* history: key of the latest cache hit, or NoKey
    script,           \* the caller: the sequence of calls and free segments it makes
    pos,              \* number of items of the script the caller has passed
    ngets,            \* number of get calls made in the free segments of the script
    attrs,            \* the names register has set as attributes of the pool
    legacy,           \* the pool of src/resource_pool.py: "none", "new" or "ready"
    _res,             \* its self._res: suffix -> hook (NoHook: not a key)
    _cache,           \* its self._cache: a dict from (suffix,) + args to data
    lcalls,           \* history: its hook invocations per (suffix, args)
    lret,             \* outcome of its get call that ended last
    pending,          \* the call made on the pool that the legacy pool has yet to get
    pools,            \* the metrics layer: the tiers of the default pool and of a pool of the caller
    mstack,           \* the metrics layer: the active calls of coh/base.py, outermost first
    dstack,           \* the default pool: the active get calls, outermost first
    dret,             \* the default pool: the outcome of the last get call
    plan,             \* the default pool: the resources the caller has yet to ask for
    heap,             \* the legacy default pool: the lists its hooks have built
    held,             \* the legacy default pool: its dict _cache, key to list held
    got               \* the legacy default pool: the last get call and the list it returned

vars == <<alive, _cache_limit, _hooks, _pinned, _unpinned_cache, _pinned_cache,
          stack, ret, calls, clock, memo, lasthit, script, pos, ngets, attrs,
          legacy, _res, _cache, lcalls, lret, pending, pools, mstack,
          dstack, dret, plan, heap, held, got>>

legacyVars == <<legacy, _res, _cache, lcalls, lret>>

\* the pool and its caller
poolVars == <<alive, _cache_limit, _hooks, _pinned, _unpinned_cache, _pinned_cache,
              stack, ret, calls, clock, memo, lasthit, script, pos, ngets, attrs,
              legacy, _res, _cache, lcalls, lret, pending>>

\* the layers above the pool
walkVars == <<dstack, dret, plan>>
oldVars == <<heap, held, got>>
appVars == <<pools, mstack, dstack, dret, plan, heap, held, got>>

----------------------------------------------------------------------------
(* Bounds of the model. *)

\* get calls the caller makes in the free segments of a script
MaxGets == 3
\* capacities 0..MaxLimit are tried
MaxLimit == 2
\* nesting depth of get calls at which the interpreter raises RecursionError
MaxDepth == 3

----------------------------------------------------------------------------
(* The universe: resource names, argument tuples, hooks. *)

\* "len" and "const" are the resources of the mixed scenario; the free segments
\* of a script ask for the names of FreeNames only
\* "x-y" and "A\n" (an A and a newline) are names that are no identifiers
\* "get" is the name of a method of the pool
Names == {"A", "B", "C3", "len", "const", "x-y", "A\n", "get"}
FreeNames == {"A", "B", "C3"}

\* the characters of a name
Spell(name) ==
    CASE name = "A" -> <<"A">>
      [] name = "B" -> <<"B">>
      [] name = "C3" -> <<"C", "3">>
      [] name = "len" -> <<"l", "e", "n">>
      [] name = "const" -> <<"c", "o", "n", "s", "t">>
      [] name = "x-y" -> <<"x", "-", "y">>
      [] name = "A\n" -> <<"A", "\n">>
      [] name = "get" -> <<"g", "e", "t">>

Letters ==
    {"a", "b", "c", "d", "e", "f", "g", "h", "i", "j", "k", "l", "m", "n", "o",
     "p", "q", "r", "s", "t", "u", "v", "w", "x", "y", "z",
     "A", "B", "C", "D", "E", "F", "G", "H", "I", "J", "K", "L", "M", "N", "O",
     "P", "Q", "R", "S", "T", "U", "V", "W", "X", "Y", "Z"}
Digits == {"0", "1", "2", "3", "4", "5", "6", "7", "8", "9"}

\* utils.is_valid_id: re.match("^[_A-Za-z][_a-zA-Z0-9]*$", string) is not None;
\* $ matches at the end of the string and also before a newline that ends it.
is_valid_id(string) ==
    LET cs == Spell(string)
        n == IF Len(cs) >= 1 /\ cs[Len(cs)] = "\n" THEN Len(cs) - 1 ELSE Len(cs)
    IN  /\ n >= 1
        /\ cs[1] \in Letters \cup {"_"}
        /\ \A i \in 2..n : cs[i] \in Letters \cup Digits \cup {"_"}
ArgTuples == {<< >>, <<1>>, <<2>>}
Keys == Names \X ArgTuples
\* the calling thread, and a second one for concurrent use
Threads == {"main", "worker"}
Main == "main"

NoHook == "none"
\* h1: a hook without dependencies       (lambda t: t.paragraphs)
\* h2: a hook that may raise             (_db_helper)
\* hA: a hook that calls get('A', *args) (_tokens calls get('sentences', text))
\* hB: a hook that calls get('B', *args)
\* hLen: the length of its string argument; hConst: the constant 42
Hooks == {"h1", "h2", "hA", "hB", "hLen", "hConst"}

\* mutant: no hook calls get
HookDepsNone(h) == << >>

HookDeps(h) ==
    CASE h = "hA" -> <<"A">>
      [] h = "hB" -> <<"B">>
      [] OTHER -> << >>

HookMayRaise(h) == h = "h2"

\* The arguments 1 and 2 stand for the strings 'ab' and 'abc'.
Text(x) == IF x = 1 THEN "ab" ELSE "abc"

\* What the hook computes from its arguments; the hooks that build an object
\* (a tagger, a list of tokens) have no number to show.
HookResult(h, args) ==
    CASE h = "hLen" -> Len(Text(args[1]))
      [] h = "hConst" -> 42
      [] OTHER -> 0

NoData == [s |-> "none", h |-> NoHook, a |-> << >>, n |-> 0, v |-> 0]

\* The object a hook returns: every invocation builds a new one, told apart by
\* the invocation number n; s and a record the get call that invoked the hook,
\* v is the value computed.
HookValue(suffix, h, args, n) ==
    [s |-> suffix, h |-> h, a |-> args, n |-> n, v |-> HookResult(h, args)]

----------------------------------------------------------------------------
(* Pure parts of ResourcePool.get. *)

None == -1

\* cache[i] with the code's 0-based index; a negative index counts from the end
At(cache, i) == IF i < 0 THEN cache[Len(cache) + i + 1] ELSE cache[i + 1]

RECURSIVE ScanFrom(_, _, _, _)
ScanFrom(cache, suffix, args, i) ==
    IF i >= Len(cache) THEN None
    ELSE IF At(cache, i).suffix = suffix /\ At(cache, i).args = args THEN i
    ELSE ScanFrom(cache, suffix, args, i + 1)

\* mutant: the scan stops after the first element
_get_index_first(cache, suffix, args) ==
    IF Len(cache) > 0 /\ At(cache, 0).suffix = suffix /\ At(cache, 0).args = args
    THEN 0 ELSE None

\* mutant: the scan compares the suffix alone
_get_index_by_suffix(cache, suffix, args) ==
    IF \E i \in 0..(Len(cache) - 1) : At(cache, i).suffix = suffix
    THEN CHOOSE i \in 0..(Len(cache) - 1) :
            /\ At(cache, i).suffix = suffix
            /\ \A j \in 0..(i - 1) : At(cache, j).suffix # suffix
    ELSE None

\* mutant: the scan looks at the last element alone
_get_index_last(cache, suffix, args) ==
    IF Len(cache) > 0 /\ At(cache, -1).suffix = suffix /\ At(cache, -1).args = args
    THEN Len(cache) - 1 ELSE None

_get_index(cache, suffix, args) == ScanFrom(cache, suffix, args, 0)

\* mutant: the check of line 109 is missing
RegisteredAlways(suffix) == TRUE

Registered(suffix) == _hooks[suffix] # NoHook

\* mutant: the pinned flag is ignored
IsPinnedNever(suffix) == FALSE

IsPinned(suffix) == suffix \in _pinned

\* mutant: every lookup goes to the unpinned list
TierUnpinnedOnly(pin) == _unpinned_cache

Tier(pin) == IF pin THEN _pinned_cache ELSE _unpinned_cache

\* mutant: nothing is appended when the list holds the key already
AppendIfAbsent(cache, suffix, args, data, seq) ==
    IF \E i \in 1..Len(cache) : cache[i].suffix = suffix /\ cache[i].args = args
    THEN cache
    ELSE Append(cache, [suffix |-> suffix, args |-> args, data |-> data, seq |-> seq])

\* mutant: the new entry is inserted at the front
AppendEntryFront(cache, suffix, args, data, seq) ==
    <<[suffix |-> suffix, args |-> args, data |-> data, seq |-> seq]>> \o cache

AppendEntry(cache, suffix, args, data, seq) ==
    Append(cache, [suffix |-> suffix, args |-> args, data |-> data, seq |-> seq])

LastIndex(cache) == Len(cache) - 1

\* cache[i] does not raise IndexError
InRange(cache, i) == 0 - Len(cache) <= i /\ i < Len(cache)

\* mutant: the comparison is off by one, one entry too many is kept
NeedsEvictLate(cache, limit) == Len(cache) > limit + 1

\* mutant: the comparison is >=, the limit itself is not allowed
NeedsEvictEarly(cache, limit) == Len(cache) >= limit /\ Len(cache) > 0

\* mutant: a limit of 0 stands for no limit
NeedsEvictUnlessZero(cache, limit) == limit > 0 /\ Len(cache) > limit

NeedsEvict(cache, limit) == Len(cache) > limit

\* mutant: the newest entry is removed (del cache[-1])
EvictBack(cache, limit) ==
    IF NeedsEvict(cache, limit) THEN SubSeq(cache, 1, Len(cache) - 1) ELSE cache

\* mutant: the whole list is dropped when it is over the limit
EvictAll(cache, limit) == IF NeedsEvict(cache, limit) THEN << >> ELSE cache

EvictFront(cache, limit) == IF NeedsEvict(cache, limit) THEN Tail(cache) ELSE cache

----------------------------------------------------------------------------
(* Frames and outcomes. *)

NoEntry == [suffix |-> "", args |-> << >>, data |-> NoData, seq |-> 0]
NoKey == <<"", << >>>>

\* A call of get: its arguments, the tier chosen at line 112, the line it is at,
\* its locals index and value, the hook it invoked and how far that hook is.
\* History: made (what the hook returned), hit, m0 (memo of the key at entry),
\* c0 (calls of the key at entry), reg (the hook registered for the name at
\* entry), u0 and p0 (the two tiers at entry).
Frame(suffix, args, pin, pc, index, hook, m0, c0) ==
    [suffix |-> suffix, args |-> args, pin |-> pin, pc |-> pc, index |-> index,
     hook |-> hook, dep |-> 1, made |-> NoData, value |-> NoData,
     hit |-> (index # None), m0 |-> m0, c0 |-> c0, reg |-> _hooks[suffix],
     u0 |-> _unpinned_cache, p0 |-> _pinned_cache]

NoRet ==
    [kind |-> "none", err |-> "", suffix |-> "", args |-> << >>, pin |-> FALSE,
     hit |-> FALSE, data |-> NoData, made |-> NoData, m0 |-> NoData,
     inv |-> 0, evicted |-> NoEntry, unwound |-> << >>, reg |-> NoHook]

\* The call f returns v; inv: hook invocations for its key during the call;
\* evicted: the entry the call removed at line 127, if any.
ValueRet(f, v, inv, evicted) ==
    [kind |-> "value", err |-> "", suffix |-> f.suffix, args |-> f.args,
     pin |-> f.pin, hit |-> f.hit, data |-> v, made |-> f.made, m0 |-> f.m0,
     inv |-> inv, evicted |-> evicted, unwound |-> << >>, reg |-> f.reg]

\* the outcome of a get call of the legacy pool
LegacyRet(kind, err, data) == [kind |-> kind, err |-> err, data |-> data]

FrameKey(f) == <<f.suffix, f.args, f.pin>>

\* An exception raised in the get call (suffix, args) with the frames stk below
\* it: no frame catches it, so it reaches the top-level caller.
ErrorRet(err, suffix, args, stk) ==
    [kind |-> "error", err |-> err, suffix |-> suffix, args |-> args,
     pin |-> FALSE, hit |-> FALSE, data |-> NoData, made |-> NoData,
     m0 |-> NoData, inv |-> 0, evicted |-> NoEntry,
     unwound |-> [i \in 1..Len(stk) |-> FrameKey(stk[i])], reg |-> NoHook]

Top(t) == stack[t][Len(stack[t])]
Idle(t) == stack[t] = << >>
Below(t) == SubSeq(stack[t], 1, Len(stack[t]) - 1)
SetTop(t, f) == [stack EXCEPT ![t] = Append(Below(t), f)]

----------------------------------------------------------------------------
(* DefaultResourcePool and the metrics layer of coh/base.py. *)

\* lines 140-146, 178-179: the resources registered with pinned=True
DefaultPinned ==
    {"pos_tagger", "univ_pos_tagger", "parser", "dep_parser", "stemmer",
     "db_helper", "idd3_engine", "lsa_space", "language_model"}

\* lines 150-176: the resources of a text
DefaultUnpinned ==
    {"raw_content", "raw_words", "paragraphs", "sentences", "tokens",
     "all_tokens", "all_words", "tagged_sentences", "tagged_tokens",
     "tagged_words", "tagged_words_in_sents", "content_words",
     "stemmed_content_words", "cw_freq", "token_types", "parse_trees",
     "dep_trees", "toplevel_nps_per_sentence", "leaves_in_toplevel_nps"}

DefaultNames == DefaultPinned \cup DefaultUnpinned

\* mutant: _paragraphs asks for the sentences, which ask for the paragraphs
DefaultDepsCyclic(name) ==
    CASE name = "sentences" -> <<"paragraphs">>
      [] name = "paragraphs" -> <<"sentences">>
      [] name = "tokens" -> <<"sentences">>
      [] OTHER -> << >>

\* The self.get calls of each hook, in the order the hook makes them.
DefaultDeps(name) ==
    CASE name = "sentences" -> <<"paragraphs">>
      [] name = "tokens" -> <<"sentences">>
      [] name = "all_tokens" -> <<"tokens">>
      [] name = "all_words" -> <<"tagged_words">>
      [] name = "tagged_sentences" -> <<"tokens">>
      [] name = "tagged_tokens" -> <<"tagged_sentences">>
      [] name = "tagged_words" -> <<"tagged_tokens", "pos_tagger">>
      [] name = "tagged_words_in_sents" -> <<"tagged_sentences", "pos_tagger">>
      [] name = "content_words" -> <<"tagged_sentences">>
      [] name = "stemmed_content_words" ->
            <<"tagged_sentences", "pos_tagger", "stemmer">>
      [] name = "cw_freq" -> <<"content_words", "db_helper">>
      [] name = "token_types" -> <<"all_words">>
      [] name = "parse_trees" -> <<"tokens">>
      [] name = "dep_trees" -> <<"tokens", "dep_parser">>
      [] name = "toplevel_nps_per_sentence" -> <<"parse_trees">>
      [] name = "leaves_in_toplevel_nps" -> <<"toplevel_nps_per_sentence">>
      [] OTHER -> << >>

\* a hook asks for a tool without arguments and for a resource with its text
DepArgs(dep, args) == IF dep \in DefaultPinned THEN << >> ELSE args

\* line 44: cache_limit=300
DefaultLimit == 300

\* default_rp of coh/base.py (line 20) and a pool the caller has built
PoolIds == {"default_rp", "own"}
default_rp == "default_rp"
Texts == {1, 2}

NewPool == [pinned |-> << >>, unpinned |-> << >>]

\* get(name, *args) on a pool built by DefaultResourcePool(), to its end: a hit
\* changes nothing; a miss runs the hook, which gets what it depends on, then
\* appends to the tier of the name, and the unpinned tier is cut to the limit.
RECURSIVE DefaultGet(_, _, _)
RECURSIVE DefaultHook(_, _, _, _)
DefaultHook(pool, deps, i, args) ==
    IF i > Len(deps) THEN pool
    ELSE DefaultHook(DefaultGet(pool, deps[i], DepArgs(deps[i], args)), deps,
                     i + 1, args)

DefaultGet(pool, name, args) ==
    IF name \in DefaultPinned
    THEN IF _get_index(pool.pinned, name, args) # None THEN pool
         ELSE LET made == DefaultHook(pool, DefaultDeps(name), 1, args)
              IN  [made EXCEPT !.pinned =
                      AppendEntry(@, name, args, HookValue(name, name, args, 1),
                                  Len(@) + 1)]
    ELSE IF _get_index(pool.unpinned, name, args) # None
    THEN [pool EXCEPT !.unpinned = EvictFront(@, DefaultLimit)]
    ELSE LET made == DefaultHook(pool, DefaultDeps(name), 1, args)
         IN  [made EXCEPT !.unpinned =
                 EvictFront(AppendEntry(@, name, args,
                                        HookValue(name, name, args, 1), Len(@) + 1),
                            DefaultLimit)]

\* metrics/basic_counts.py and metrics/freq.py: two categories and the
\* resource each of their metrics asks its pool for
Categories == <<"BasicCounts", "Frequencies">>
CategoryMetrics(cat) ==
    IF cat = "BasicCounts" THEN <<"Sentences", "Paragraphs">>
    ELSE <<"ContentWordsFrequency">>
MetricResource(m) ==
    CASE m = "Sentences" -> "sentences"
      [] m = "Paragraphs" -> "paragraphs"
      [] m = "ContentWordsFrequency" -> "cw_freq"

\* A call of the metrics layer: the function, its arguments text or texts and
\* rp, the category or metric it belongs to, its loop counter i.  History: d0,
\* the tiers of the default pool when the call was made.
MetricsFrame(fn, who, text, texts, rp) ==
    [fn |-> fn, who |-> who, text |-> text, texts |-> texts, rp |-> rp, i |-> 1,
     d0 |-> pools[default_rp]]

MetricsTop == mstack[Len(mstack)]
MetricsPop == mstack' = SubSeq(mstack, 1, Len(mstack) - 1)
\* the top call moves on in its loop and makes the call f
MetricsPush(f) ==
    mstack' = Append(SubSeq(mstack, 1, Len(mstack) - 1),
                     [MetricsTop EXCEPT !.i = @ + 1]) \o <<f>>

\* A client calls MetricsSet.values_for_text(text, rp).
CallSetValuesForText(text, rp) ==
    /\ mstack = << >>
    /\ mstack' = <<MetricsFrame("MetricsSet.values_for_text", "", text, << >>, rp)>>
    /\ UNCHANGED <<poolVars, pools, walkVars, oldVars>>

\* A client calls Category.values_for_text(text, rp).
CallValuesForText(cat, text, rp) ==
    /\ mstack = << >>
    /\ mstack' = <<MetricsFrame("Category.values_for_text", cat, text, << >>, rp)>>
    /\ UNCHANGED <<poolVars, pools, walkVars, oldVars>>

\* A client calls Category.values_for_texts(texts, rp).
CallValuesForTexts(cat, texts, rp) ==
    /\ mstack = << >>
    /\ mstack' = <<MetricsFrame("Category.values_for_texts", cat, 0, texts, rp)>>
    /\ UNCHANGED <<poolVars, pools, walkVars, oldVars>>

\* base.py lines 323-328: cat.values_for_text(text, rp) for each category.
SetValuesForText ==
    /\ mstack # << >>
    /\ MetricsTop.fn = "MetricsSet.values_for_text"
    /\ LET f == MetricsTop
       IN  IF f.i <= Len(Categories)
           THEN MetricsPush(MetricsFrame("Category.values_for_text",
                                         Categories[f.i], f.text, << >>, f.rp))
           ELSE MetricsPop
    /\ UNCHANGED <<poolVars, pools, walkVars, oldVars>>

\* base.py line 225: self.values_for_text(t, rp) for each text.
ValuesForTexts ==
    /\ mstack # << >>
    /\ MetricsTop.fn = "Category.values_for_texts"
    /\ LET f == MetricsTop
       IN  IF f.i <= Len(f.texts)
           THEN MetricsPush(MetricsFrame("Category.values_for_text", f.who,
                                         f.texts[f.i], << >>, f.rp))
           ELSE MetricsPop
    /\ UNCHANGED <<poolVars, pools, walkVars, oldVars>>

\* base.py lines 203-214: m.value_for_text(text) for each metric; the call
\* gives no rp, so the metric takes its default, rp=default_rp.
ValuesForText ==
    /\ mstack # << >>
    /\ MetricsTop.fn = "Category.values_for_text"
    /\ LET f == MetricsTop
       IN  IF f.i <= Len(CategoryMetrics(f.who))
           THEN MetricsPush(MetricsFrame("Metric.value_for_text",
                                         CategoryMetrics(f.who)[f.i], f.text,
                                         << >>, default_rp))
           ELSE MetricsPop
    /\ UNCHANGED <<poolVars, pools, walkVars, oldVars>>

\* A metric asks its rp for its resource, as in freq.py line 42: rp.cw_freq(t).
ValueForText ==
    /\ mstack # << >>
    /\ MetricsTop.fn = "Metric.value_for_text"
    /\ pools' = [pools EXCEPT ![MetricsTop.rp] =
                    DefaultGet(@, MetricResource(MetricsTop.who), <<MetricsTop.text>>)]
    /\ MetricsPop
    /\ UNCHANGED <<poolVars, walkVars, oldVars>>

----------------------------------------------------------------------------
(* The default pool of src/resource_pool.py: its hooks and the lists they
   build.  A list is an object of the heap; the dict _cache holds references. *)

\* the resources of a text the hooks of lines 112-171 build
OldNames == {"words", "tagged_sentences", "tagged_words", "content_words", "cw_freq"}
OldKeys == OldNames \X Texts
NoRef == 0

\* The elements of the lists: a word, a pair (word, tag), a frequency.
Word(w) == [kind |-> "word", w |-> w, tag |-> "", f |-> 0]
Pair(w, tag) == [kind |-> "pair", w |-> w, tag |-> tag, f |-> 0]
Freq(n) == [kind |-> "freq", w |-> "", tag |-> "", f |-> n]

\* _words: the words of the two texts, sentence by sentence
WordsOf(t) ==
    IF t = 1 THEN <<<<Word("the"), Word("cat"), Word("sleeps")>>>>
    ELSE <<<<Word("it"), Word("sleeps")>>, <<Word("the"), Word("cat")>>>>

\* pos_tagger.tag: the tag of a word
TagOf(w) ==
    CASE w = "the" -> "ART"
      [] w = "it" -> "PRO"
      [] w = "cat" -> "N"
      [] OTHER -> "V"

\* tools/tag/api.py line 58: tag_sents builds a new list of new lists of pairs
tag_sents(sentences) ==
    [i \in 1..Len(sentences) |->
        [j \in 1..Len(sentences[i]) |-> Pair(sentences[i][j].w, TagOf(sentences[i][j].w))]]

\* tagset.is_content_word: the tag is one of content_word_tags
content_word_tags == {"N", "V"}
is_content_word(x) == x.tag \in content_word_tags

\* [word for (word, tag) in seq if is_content_word((word, tag))]
RECURSIVE SelectContent(_)
SelectContent(seq) ==
    IF seq = << >> THEN << >>
    ELSE IF is_content_word(Head(seq))
    THEN <<Word(Head(seq).w)>> \o SelectContent(Tail(seq))
    ELSE SelectContent(Tail(seq))

\* database.Helper.get_frequency and f.freq if f is not None else 0
FreqOf(w) == IF w = "cat" THEN 7 ELSE 0

\* list(chain.from_iterable(lists))
RECURSIVE Flatten(_)
Flatten(lists) == IF lists = << >> THEN << >> ELSE Head(lists) \o Flatten(Tail(lists))

\* The state of the pool after a call, and the list the call returned.
OldOut(h, c, ref) == [heap |-> h, held |-> c, ref |-> ref]

\* a hook returns a list it has built: a new object
NewList(st, value) == OldOut(Append(st.heap, value), st.held, Len(st.heap) + 1)

\* get(name, t), lines 61-68, and the hooks of lines 112-171.  _content_words
\* and _cw_freq bind a second name to the list get returned (content_words =
\* tagged_sents, frequencies = content_words), assign to its elements and
\* return it: the list they return is the list they were given.
RECURSIVE OldGet(_, _, _)
RECURSIVE OldHook(_, _, _)
OldHook(st, name, t) ==
    CASE name = "words" -> NewList(st, WordsOf(t))
      [] name = "tagged_sentences" ->
            LET r == OldGet(st, "words", t)
            IN  NewList(r, tag_sents(r.heap[r.ref]))
      [] name = "tagged_words" ->
            LET r == OldGet(st, "tagged_sentences", t)
            IN  NewList(r, Flatten(r.heap[r.ref]))
      [] name = "content_words" ->
            LET r == OldGet(st, "tagged_sentences", t)
                old == r.heap[r.ref]
            IN  OldOut([r.heap EXCEPT ![r.ref] =
                           [i \in 1..Len(old) |-> SelectContent(old[i])]],
                       r.held, r.ref)
      [] name = "cw_freq" ->
            LET r == OldGet(st, "content_words", t)
                old == r.heap[r.ref]
            IN  OldOut([r.heap EXCEPT ![r.ref] =
                           [i \in 1..Len(old) |->
                               [j \in 1..Len(old[i]) |-> Freq(FreqOf(old[i][j].w))]]],
                       r.held, r.ref)

OldGet(st, name, t) ==
    IF st.held[<<name, t>>] # NoRef
    THEN OldOut(st.heap, st.held, st.held[<<name, t>>])
    ELSE LET r == OldHook(st, name, t)
         IN  OldOut(r.heap, [r.held EXCEPT ![<<name, t>>] = r.ref], r.ref)

\* A client calls rp.get(name, t) on the legacy default pool.
OldCall(name, t) ==
    /\ LET r == OldGet(OldOut(heap, held, NoRef), name, t)
       IN  /\ heap' = r.heap
           /\ held' = r.held
           /\ got' = [name |-> name, text |-> t, ref |-> r.ref]
    /\ UNCHANGED <<poolVars, pools, mstack, walkVars>>

----------------------------------------------------------------------------
\* nesting depth of get calls at which the interpreter gives up
MaxNesting == 9

\* the text the resources are asked for
WalkArgs == <<1>>

\* what the caller asks the default pool for: any two of its resources
Plans == {<<a, b>> : a \in DefaultNames, b \in DefaultNames}

DefaultTier(pool, name) == IF name \in DefaultPinned THEN pool.pinned ELSE pool.unpinned

\* get(name, *args) on the default pool with the calls stk active: lines
\* 109-129 up to the hook invocation of a miss; a hit returns at once.
DefaultEnter(stk, name, args) ==
    IF Len(stk) >= MaxNesting
    THEN /\ dstack' = << >>
         /\ dret' = "RecursionError"
         /\ UNCHANGED pools
    ELSE IF _get_index(DefaultTier(pools[default_rp], name), name, args) # None
    THEN /\ dstack' = stk
         /\ dret' = "value"
         /\ pools' = [pools EXCEPT ![default_rp] =
                          IF name \in DefaultPinned THEN @
                          ELSE [@ EXCEPT !.unpinned = EvictFront(@, DefaultLimit)]]
    ELSE /\ dstack' = Append(stk, [name |-> name, args |-> args, dep |-> 1])
         /\ UNCHANGED <<pools, dret>>

\* A top-level get call on the default pool.
DefaultAsk ==
    /\ dstack = << >>
    /\ plan # << >>
    /\ plan' = Tail(plan)
    /\ DefaultEnter(<< >>, Head(plan), DepArgs(Head(plan), WalkArgs))
    /\ UNCHANGED <<poolVars, mstack, oldVars>>

\* The running hook calls self.get for the next resource it depends on.
DefaultHookCall ==
    /\ dstack # << >>
    /\ LET f == dstack[Len(dstack)]
           deps == DefaultDeps(f.name)
       IN  /\ f.dep <= Len(deps)
           /\ DefaultEnter(Append(SubSeq(dstack, 1, Len(dstack) - 1),
                                  [f EXCEPT !.dep = @ + 1]),
                           deps[f.dep], DepArgs(deps[f.dep], f.args))
    /\ UNCHANGED <<poolVars, mstack, plan, oldVars>>

\* The running hook returns: lines 115-118 and 122-129.
DefaultHookReturn ==
    /\ dstack # << >>
    /\ LET f == dstack[Len(dstack)]
           data == HookValue(f.name, f.name, f.args, 1)
       IN  /\ f.dep > Len(DefaultDeps(f.name))
           /\ pools' = [pools EXCEPT ![default_rp] =
                 IF f.name \in DefaultPinned
                 THEN [@ EXCEPT !.pinned =
                          AppendEntry(@, f.name, f.args, data, Len(@) + 1)]
                 ELSE [@ EXCEPT !.unpinned =
                          EvictFront(AppendEntry(@, f.name, f.args, data, Len(@) + 1),
                                     DefaultLimit)]]
    /\ dstack' = SubSeq(dstack, 1, Len(dstack) - 1)
    /\ dret' = "value"
    /\ UNCHANGED <<poolVars, mstack, plan, oldVars>>

----------------------------------------------------------------------------
(* The caller. *)

Op(op, suffix, hook, pin, args, limit) ==
    [op |-> op, suffix |-> suffix, hook |-> hook, pin |-> pin, args |-> args,
     limit |-> limit]
NewOp(c) == Op("new", "", NoHook, FALSE, << >>, c)
RegOp(suffix, hook, pin) == Op("register", suffix, hook, pin, << >>, 0)
GetOp(suffix, args) == Op("get", suffix, NoHook, FALSE, args, 0)
\* pool.<suffix>(*args)
CallOp(suffix, args) == Op("call", suffix, NoHook, FALSE, args, 0)
NoOp == Op("none", "", NoHook, FALSE, << >>, 0)
\* the caller that drives a legacy pool as well repeats every call on it
Replay(op) == IF legacy = "none" THEN NoOp ELSE op
\* a free segment: any get calls, MaxGets in all
FreeGets == Op("gets", "", NoHook, FALSE, << >>, 0)

\* argument tuples of the get calls of a free segment
FreeArgs == {<<1>>, <<2>>}

\* Capacity 2, three independent unpinned resources, each got twice in order.
FifoScript ==
    <<NewOp(2), RegOp("A", "h1", FALSE), RegOp("B", "h1", FALSE),
      RegOp("C3", "h1", FALSE),
      GetOp("A", <<1>>), GetOp("B", <<2>>), GetOp("C3", << >>),
      GetOp("A", <<1>>), GetOp("B", <<2>>), GetOp("C3", << >>)>>

\* The same, the second round asking for B and C3 before A.
FifoScriptBCA ==
    <<NewOp(2), RegOp("A", "h1", FALSE), RegOp("B", "h1", FALSE),
      RegOp("C3", "h1", FALSE),
      GetOp("A", <<1>>), GetOp("B", <<2>>), GetOp("C3", << >>),
      GetOp("B", <<2>>), GetOp("C3", << >>), GetOp("A", <<1>>)>>

\* X = "A" with a plain hook, Y = "B" whose hook calls get('A', t);
\* the caller gets X and then Y.
DepScript(c, px, py) ==
    <<NewOp(c), RegOp("A", "h1", px), RegOp("B", "hA", py),
      GetOp("A", <<1>>), GetOp("B", <<1>>)>>

DepScripts == {DepScript(c, px, py) : c \in 0..MaxLimit, px \in BOOLEAN, py \in BOOLEAN}

\* The hook of A calls get('B', t) and the hook of B calls get('A', t).
CycleSetup ==
    <<RegOp("A", "hB", FALSE), RegOp("B", "hA", FALSE), RegOp("C3", "h1", TRUE),
      FreeGets>>

\* Registrations followed by free get calls; some re-register in between.
Setups ==
    { <<RegOp("A", "h1", FALSE), RegOp("B", "hA", FALSE), RegOp("C3", "h2", TRUE),
        FreeGets>>,
      <<RegOp("A", "h1", TRUE), RegOp("B", "hA", FALSE), RegOp("C3", "h2", FALSE),
        FreeGets>>,
      <<RegOp("A", "h1", FALSE), RegOp("B", "hA", FALSE), RegOp("C3", "hB", FALSE),
        FreeGets>>,
      CycleSetup,
      <<RegOp("B", "hA", TRUE), FreeGets, RegOp("A", "h2", FALSE), FreeGets>>,
      <<RegOp("A", "h1", FALSE), FreeGets, RegOp("A", "h2", TRUE), FreeGets>>,
      <<RegOp("A", "h1", TRUE), FreeGets, RegOp("A", "h2", FALSE), FreeGets>> }

\* Capacity 1, an unpinned 'len' and a pinned 'const':
\* get('const'), get('len','ab'), get('len','abc'), get('len','ab'), get('const').
MixedScript ==
    <<NewOp(1), RegOp("len", "hLen", FALSE), RegOp("const", "hConst", TRUE),
      GetOp("const", << >>), GetOp("len", <<1>>), GetOp("len", <<2>>),
      GetOp("len", <<1>>), GetOp("const", << >>)>>

\* A resource is asked for before and after a resource named 'get' is registered.
ShadowScript(pin) ==
    <<NewOp(1), RegOp("A", "h1", pin), GetOp("A", <<1>>), RegOp("get", "h1", FALSE),
      GetOp("A", <<1>>), GetOp("A", <<2>>)>>
ShadowScripts == {ShadowScript(pin) : pin \in BOOLEAN}

\* One resource, asked for twice, by get or by the attribute of its name.
AccessorScript(name, pin, via) ==
    <<NewOp(1), RegOp(name, "h1", pin),
      Op(via, name, NoHook, FALSE, <<1>>, 0), Op(via, name, NoHook, FALSE, <<1>>, 0)>>

AccessorScripts ==
    {AccessorScript(name, pin, via) :
        name \in {"A", "x-y", "A\n"}, pin \in BOOLEAN, via \in {"get", "call"}}

\* Two get calls of one key, for two threads.
RaceScript(c, pin) ==
    <<NewOp(c), RegOp("A", "h1", pin), GetOp("A", <<1>>), GetOp("A", <<1>>)>>

RaceScripts == {RaceScript(c, pin) : c \in 0..MaxLimit, pin \in BOOLEAN}

\* Two get calls of different keys of one tier, for two threads.
TwoKeysScript(c, pin) ==
    <<NewOp(c), RegOp("A", "h1", pin), RegOp("B", "h1", pin),
      GetOp("A", <<1>>), GetOp("B", <<2>>)>>

TwoKeysScripts == {TwoKeysScript(c, pin) : c \in 0..MaxLimit, pin \in BOOLEAN}

\* Two calls for two threads: a hook that calls get, a hook that may raise.
NestedScript ==
    <<NewOp(1), RegOp("A", "h2", FALSE), RegOp("B", "hA", TRUE),
      CallOp("B", <<1>>), GetOp("A", <<2>>)>>

ThreadScripts == RaceScripts \cup TwoKeysScripts \cup {NestedScript}

OpenScripts == {<<NewOp(c)>> \o s : c \in -1..MaxLimit, s \in Setups}

Scripts ==
    {FifoScript, FifoScriptBCA, MixedScript} \cup DepScripts \cup AccessorScripts
        \cup OpenScripts \cup ShadowScripts

Current == script[pos + 1]
InFree == pos < Len(script) /\ Current.op = "gets"

\* The caller may make the call op: it is the next item of the script, or a get
\* call of the free segment it is in, or the item that follows that segment.
Allowed(op) ==
    /\ pos < Len(script)
    /\ \/ Current = op
       \/ /\ InFree /\ op.op = "get" /\ ngets < MaxGets
          /\ op.suffix \in FreeNames /\ op.args \in FreeArgs
       \/ InFree /\ pos + 1 < Len(script) /\ script[pos + 2] = op

NextPos(op) ==
    IF Current = op THEN pos + 1
    ELSE IF op.op = "get" THEN pos
    ELSE pos + 2

NextGets(op) == IF InFree /\ op.op = "get" THEN ngets + 1 ELSE ngets

----------------------------------------------------------------------------
(* Initial state: no pool yet. *)

InitWith(scripts, old) ==
    /\ alive = "new"
    /\ _cache_limit = 0
    /\ _hooks = [s \in Names |-> NoHook]
    /\ _pinned = {}
    /\ _unpinned_cache = << >>
    /\ _pinned_cache = << >>
    /\ stack = [t \in Threads |-> << >>]
    /\ ret = [t \in Threads |-> NoRet]
    /\ calls = [k \in Keys |-> 0]
    /\ clock = 0
    /\ memo = [k \in Keys |-> NoData]
    /\ lasthit = NoKey
    /\ script \in scripts
    /\ pos = 0
    /\ ngets = 0
    /\ attrs = {}
    /\ legacy = old
    /\ _res = [s \in Names |-> NoHook]
    /\ _cache = << >>
    /\ lcalls = [k \in Keys |-> 0]
    /\ lret = LegacyRet("none", "", NoData)
    /\ pending = NoOp

\* The default pool and the pool of a caller of the metrics layer, both built
\* by DefaultResourcePool(); no call of coh/base.py is active.
MetricsInit ==
    /\ pools = [p \in PoolIds |-> NewPool]
    /\ mstack = << >>

\* No get call on the default pool is active; the caller will ask it for the
\* resources of one of plans.
WalkInit(plans) ==
    /\ dstack = << >>
    /\ dret = "none"
    /\ plan \in plans

\* src/resource_pool.py line 174: rp = DefaultResourcePool(), nothing cached.
OldInit ==
    /\ heap = << >>
    /\ held = [k \in OldKeys |-> NoRef]
    /\ got = [name |-> "", text |-> 0, ref |-> NoRef]

AppInit == MetricsInit /\ WalkInit({<< >>}) /\ OldInit

Init == InitWith(Scripts, "new") /\ AppInit

----------------------------------------------------------------------------
(* ResourcePool.__init__ *)

\* mutant: capacity 0 is rejected as well
ValidLimitPositive(c) == c > 0

\* line 51: if cache_limit < 0: raise ValueError
ValidLimit(c) == ~(c < 0)

Construct(c) ==
    /\ pending = NoOp
    /\ pending' = Replay(NewOp(c))
    /\ alive = "new"
    /\ Allowed(NewOp(c))
    /\ pos' = NextPos(NewOp(c))
    /\ ngets' = NextGets(NewOp(c))
    /\ IF ~ValidLimit(c)
       THEN alive' = "invalid" /\ UNCHANGED _cache_limit
       ELSE alive' = "ready" /\ _cache_limit' = c
    /\ UNCHANGED <<_hooks, _pinned, _unpinned_cache, _pinned_cache, stack, ret,
                   calls, clock, memo, script, attrs, lasthit,
                   legacyVars, appVars>>

(* ResourcePool.register *)

Register(suffix, hook, pin) ==
    /\ pending = NoOp
    /\ pending' = Replay(RegOp(suffix, hook, pin))
    /\ UNCHANGED <<legacyVars, appVars>>
    /\ alive = "ready"
    /\ \A t \in Threads : Idle(t)
    /\ Allowed(RegOp(suffix, hook, pin))
    /\ pos' = NextPos(RegOp(suffix, hook, pin))
    /\ ngets' = NextGets(RegOp(suffix, hook, pin))
    /\ _pinned' = IF pin THEN _pinned \cup {suffix} ELSE _pinned
    /\ _hooks' = [_hooks EXCEPT ![suffix] = hook]
    /\ attrs' = IF is_valid_id(suffix) THEN attrs \cup {suffix} ELSE attrs
    /\ memo' = [k \in Keys |-> IF k[1] = suffix THEN NoData ELSE memo[k]]
    /\ UNCHANGED <<alive, _cache_limit, _unpinned_cache, _pinned_cache, stack,
                   ret, calls, clock, lasthit, script>>

----------------------------------------------------------------------------
(* ResourcePool.get *)

\* Line 87 with suffix 'get': the instance attribute get hides the method, so
\* pool.get(...) and self.get(...) call lambda *args: self.get('get', *args),
\* which calls itself until the interpreter raises RecursionError.
GetShadowed(set) == "get" \in set

\* An exception leaves every frame of thread t.
Raise(t, err, suffix, args, stk) ==
    /\ stack' = [stack EXCEPT ![t] = << >>]
    /\ ret' = [ret EXCEPT ![t] = ErrorRet(err, suffix, args, stk)]

\* Thread t, with the frames stk active, calls get(suffix, *args): lines
\* 109-114 and 120-121, up to the hook invocation of a miss.
EnterGet(t, stk, suffix, args) ==
    IF GetShadowed(attrs)
    THEN /\ Raise(t, "RecursionError", suffix, args, stk)
         /\ UNCHANGED <<calls, lasthit>>
    ELSE IF Len(stk) >= MaxDepth
    THEN /\ Raise(t, "RecursionError", suffix, args, stk)
         /\ UNCHANGED <<calls, lasthit>>
    ELSE IF ~Registered(suffix)
    THEN /\ Raise(t, "NotRegistered", suffix, args, stk)
         /\ UNCHANGED <<calls, lasthit>>
    ELSE LET pin == IsPinned(suffix)
             index == _get_index(Tier(pin), suffix, args)
             k == <<suffix, args>>
         IN  IF index # None
             THEN /\ stack' = [stack EXCEPT ![t] = Append(stk,
                         Frame(suffix, args, pin, "read", index, NoHook, memo[k],
                               calls[k]))]
                  /\ lasthit' = k
                  /\ UNCHANGED <<ret, calls>>
             ELSE /\ stack' = [stack EXCEPT ![t] = Append(stk,
                         Frame(suffix, args, pin, "hook", index, _hooks[suffix],
                               memo[k], calls[k]))]
                  /\ calls' = [calls EXCEPT ![k] = @ + 1]
                  /\ UNCHANGED <<ret, lasthit>>

\* mutant: the call hands out its value and stays where it is
ReturnStay(t, f, v, evicted) ==
    /\ stack' = stack
    /\ ret' = [ret EXCEPT ![t] =
                 ValueRet(f, v, calls[<<f.suffix, f.args>>] - f.c0, evicted)]

\* The get call f of thread t returns v to its caller.
Return(t, f, v, evicted) ==
    /\ stack' = [stack EXCEPT ![t] = Below(t)]
    /\ ret' = [ret EXCEPT ![t] =
                 ValueRet(f, v, calls[<<f.suffix, f.args>>] - f.c0, evicted)]

\* A top-level call of get.
GetCall(t, suffix, args) ==
    /\ pending = NoOp
    /\ pending' = Replay(GetOp(suffix, args))
    /\ alive = "ready"
    /\ Idle(t)
    /\ Allowed(GetOp(suffix, args))
    /\ pos' = NextPos(GetOp(suffix, args))
    /\ ngets' = NextGets(GetOp(suffix, args))
    /\ EnterGet(t, << >>, suffix, args)
    /\ UNCHANGED <<alive, _cache_limit, _hooks, _pinned, _unpinned_cache,
                   _pinned_cache, clock, memo, script, attrs,
                   legacyVars, appVars>>

\* A top-level call of pool.<suffix>(*args): the attribute set at line 87 calls
\* self.get(suffix, *args); without it the lookup raises AttributeError.
AccessorCall(t, suffix, args) ==
    /\ pending = NoOp
    /\ pending' = Replay(CallOp(suffix, args))
    /\ alive = "ready"
    /\ Idle(t)
    /\ Allowed(CallOp(suffix, args))
    /\ pos' = NextPos(CallOp(suffix, args))
    /\ ngets' = NextGets(CallOp(suffix, args))
    /\ IF suffix \in attrs
       THEN EnterGet(t, << >>, suffix, args)
       ELSE /\ Raise(t, "AttributeError", suffix, args, << >>)
            /\ UNCHANGED <<calls, lasthit>>
    /\ UNCHANGED <<alive, _cache_limit, _hooks, _pinned, _unpinned_cache,
                   _pinned_cache, clock, memo, script, attrs,
                   legacyVars, appVars>>

\* The running hook calls get on the same pool.
HookCall(t) ==
    /\ ~Idle(t)
    /\ Top(t).pc = "hook"
    /\ Top(t).dep <= Len(HookDeps(Top(t).hook))
    /\ LET f == Top(t)
           stk == Append(Below(t), [f EXCEPT !.dep = @ + 1])
       IN  EnterGet(t, stk, HookDeps(f.hook)[f.dep], f.args)
    /\ UNCHANGED <<alive, _cache_limit, _hooks, _pinned, _unpinned_cache,
                   _pinned_cache, clock, memo, script, attrs, pos, ngets,
                   pending, legacyVars, appVars>>

\* The running hook returns its value (the argument of append is evaluated).
HookReturn(t) ==
    /\ ~Idle(t)
    /\ Top(t).pc = "hook"
    /\ Top(t).dep > Len(HookDeps(Top(t).hook))
    /\ LET f == Top(t)
           v == HookValue(f.suffix, f.hook, f.args, calls[<<f.suffix, f.args>>])
       IN  stack' = SetTop(t, [f EXCEPT !.made = v, !.pc = "append"])
    /\ UNCHANGED <<alive, _cache_limit, _hooks, _pinned, _unpinned_cache,
                   _pinned_cache, ret, calls, clock, memo, script, attrs, pos, ngets, lasthit,
                   pending, legacyVars, appVars>>

\* mutant: the failure is stored as an entry before it is raised
HookRaiseCached(t) ==
    /\ ~Idle(t)
    /\ Top(t).pc = "hook"
    /\ Top(t).dep > Len(HookDeps(Top(t).hook))
    /\ HookMayRaise(Top(t).hook)
    /\ Raise(t, "HookError", Top(t).suffix, Top(t).args, stack[t])
    /\ IF Top(t).pin
       THEN /\ _pinned_cache' = AppendEntry(_pinned_cache, Top(t).suffix,
                                            Top(t).args, NoData, clock + 1)
            /\ UNCHANGED _unpinned_cache
       ELSE /\ _unpinned_cache' = AppendEntry(_unpinned_cache, Top(t).suffix,
                                              Top(t).args, NoData, clock + 1)
            /\ UNCHANGED _pinned_cache
    /\ clock' = clock + 1
    /\ UNCHANGED <<alive, _cache_limit, _hooks, _pinned, calls, memo, lasthit,
                   script, attrs, pos, ngets,
                   pending, legacyVars, appVars>>

\* The running hook raises.
HookRaise(t) ==
    /\ ~Idle(t)
    /\ Top(t).pc = "hook"
    /\ Top(t).dep > Len(HookDeps(Top(t).hook))
    /\ HookMayRaise(Top(t).hook)
    /\ Raise(t, "HookError", Top(t).suffix, Top(t).args, stack[t])
    /\ UNCHANGED <<alive, _cache_limit, _hooks, _pinned, _unpinned_cache,
                   _pinned_cache, calls, clock, memo, script, attrs, pos, ngets, lasthit,
                   pending, legacyVars, appVars>>

\* mutant: the new entry is appended to both tiers
CacheAppendBoth(t) ==
    /\ ~Idle(t)
    /\ Top(t).pc = "append"
    /\ LET f == Top(t)
       IN  /\ _pinned_cache' =
                AppendEntry(_pinned_cache, f.suffix, f.args, f.made, clock + 1)
           /\ _unpinned_cache' =
                AppendEntry(_unpinned_cache, f.suffix, f.args, f.made, clock + 1)
           /\ stack' = SetTop(t, [f EXCEPT !.pc = "index"])
    /\ clock' = clock + 1
    /\ UNCHANGED <<alive, _cache_limit, _hooks, _pinned, ret, calls, memo,
                   script, attrs, pos, ngets, lasthit,
                   pending, legacyVars, appVars>>

\* Lines 115 and 122: cache.append((suffix, args, value)).
CacheAppend(t) ==
    /\ ~Idle(t)
    /\ Top(t).pc = "append"
    /\ LET f == Top(t)
       IN  /\ IF f.pin
              THEN /\ _pinned_cache' =
                        AppendEntry(_pinned_cache, f.suffix, f.args, f.made, clock + 1)
                   /\ UNCHANGED _unpinned_cache
              ELSE /\ _unpinned_cache' =
                        AppendEntry(_unpinned_cache, f.suffix, f.args, f.made, clock + 1)
                   /\ UNCHANGED _pinned_cache
           /\ stack' = SetTop(t, [f EXCEPT !.pc = "index"])
    /\ clock' = clock + 1
    /\ UNCHANGED <<alive, _cache_limit, _hooks, _pinned, ret, calls, memo,
                   script, attrs, pos, ngets, lasthit,
                   pending, legacyVars, appVars>>

\* Lines 116 and 123: index = len(cache) - 1.
IndexLast(t) ==
    /\ ~Idle(t)
    /\ Top(t).pc = "index"
    /\ stack' = SetTop(t, [Top(t) EXCEPT !.index = LastIndex(Tier(Top(t).pin)),
                                          !.pc = "read"])
    /\ UNCHANGED <<alive, _cache_limit, _hooks, _pinned, _unpinned_cache,
                   _pinned_cache, ret, calls, clock, memo, script, attrs, pos, ngets, lasthit,
                   pending, legacyVars, appVars>>

\* Lines 118 and 124: cache[index][2]; the pinned branch returns it.
ReadValue(t) ==
    /\ ~Idle(t)
    /\ Top(t).pc = "read"
    /\ LET f == Top(t)
           k == <<f.suffix, f.args>>
       IN  IF ~InRange(Tier(f.pin), f.index)
           THEN /\ Raise(t, "IndexError", f.suffix, f.args, stack[t])
                /\ UNCHANGED memo
           ELSE LET v == At(Tier(f.pin), f.index).data
                IN  /\ memo' = [memo EXCEPT ![k] = v]
                    /\ IF f.pin
                       THEN Return(t, f, v, NoEntry)
                       ELSE /\ stack' = SetTop(t, [f EXCEPT !.value = v,
                                                            !.pc = "evict"])
                            /\ UNCHANGED ret
    /\ UNCHANGED <<alive, _cache_limit, _hooks, _pinned, _unpinned_cache,
                   _pinned_cache, calls, clock, script, attrs, pos, ngets, lasthit,
                   pending, legacyVars, appVars>>

\* mutant: a hit removes the oldest entry
EvictReturnHit(t) ==
    /\ ~Idle(t)
    /\ Top(t).pc = "evict"
    /\ _unpinned_cache' = IF Top(t).hit THEN Tail(_unpinned_cache)
                         ELSE EvictFront(_unpinned_cache, _cache_limit)
    /\ LET gone == {i \in 1..Len(_unpinned_cache) :
                       \A j \in 1..Len(_unpinned_cache') :
                           _unpinned_cache'[j].seq # _unpinned_cache[i].seq}
           evicted == IF gone = {} THEN NoEntry
                      ELSE _unpinned_cache[CHOOSE i \in gone : TRUE]
       IN  /\ memo' = [k \in Keys |->
                         IF \E i \in gone : <<_unpinned_cache[i].suffix,
                                               _unpinned_cache[i].args>> = k
                         THEN NoData ELSE memo[k]]
           /\ Return(t, Top(t), Top(t).value, evicted)
    /\ UNCHANGED <<alive, _cache_limit, _hooks, _pinned, _pinned_cache, calls,
                   clock, lasthit, script, attrs, pos, ngets,
                   pending, legacyVars, appVars>>

\* mutant: the removal is del cache[-1]
EvictReturnNewest(t) ==
    /\ ~Idle(t)
    /\ Top(t).pc = "evict"
    /\ _unpinned_cache' = EvictBack(_unpinned_cache, _cache_limit)
    /\ LET gone == {i \in 1..Len(_unpinned_cache) :
                       \A j \in 1..Len(_unpinned_cache') :
                           _unpinned_cache'[j].seq # _unpinned_cache[i].seq}
           evicted == IF gone = {} THEN NoEntry
                      ELSE _unpinned_cache[CHOOSE i \in gone : TRUE]
       IN  /\ memo' = [k \in Keys |->
                         IF \E i \in gone : <<_unpinned_cache[i].suffix,
                                               _unpinned_cache[i].args>> = k
                         THEN NoData ELSE memo[k]]
           /\ Return(t, Top(t), Top(t).value, evicted)
    /\ UNCHANGED <<alive, _cache_limit, _hooks, _pinned, _pinned_cache, calls,
                   clock, lasthit, script, attrs, pos, ngets,
                   pending, legacyVars, appVars>>

\* Lines 126-129: one removal from the front if the tier is over the limit,
\* then return value.
EvictReturn(t) ==
    /\ ~Idle(t)
    /\ Top(t).pc = "evict"
    /\ _unpinned_cache' = EvictFront(_unpinned_cache, _cache_limit)
    /\ LET gone == {i \in 1..Len(_unpinned_cache) :
                       \A j \in 1..Len(_unpinned_cache') :
                           _unpinned_cache'[j].seq # _unpinned_cache[i].seq}
           evicted == IF gone = {} THEN NoEntry
                      ELSE _unpinned_cache[CHOOSE i \in gone : TRUE]
       IN  /\ memo' = [k \in Keys |->
                         IF \E i \in gone : <<_unpinned_cache[i].suffix,
                                               _unpinned_cache[i].args>> = k
                         THEN NoData ELSE memo[k]]
           /\ Return(t, Top(t), Top(t).value, evicted)
    /\ UNCHANGED <<alive, _cache_limit, _hooks, _pinned, _pinned_cache, calls,
                   clock, lasthit, script, attrs, pos, ngets,
                   pending, legacyVars, appVars>>

----------------------------------------------------------------------------
(* The legacy pool, src/resource_pool.py: one dict keyed by (suffix,) + args. *)

\* mutant: the key of the dict is the suffix alone
ResIdNoArgs(suffix, args) == <<suffix>>

\* line 61: res_id = (suffix, ) + args
ResId(suffix, args) == <<suffix>> \o args

\* The outcome of a get call together with the dict and the invocation counts
\* it leaves behind.
LegacyOut(cache, lc, kind, err, data) ==
    [cache |-> cache, calls |-> lc, kind |-> kind, err |-> err, data |-> data]

\* get(suffix, *args) of the legacy pool, depth calls deep; fails: the hook that
\* may raise raises in this call.  Lines 61-68: a key of the dict is returned,
\* any other is computed by the hook, which may call get, and stored.
RECURSIVE LegacyGet(_, _, _, _, _, _)
RECURSIVE LegacyHook(_, _, _, _, _, _, _)
LegacyHook(cache, lc, deps, i, args, fails, depth) ==
    IF i > Len(deps) THEN LegacyOut(cache, lc, "value", "", NoData)
    ELSE LET r == LegacyGet(cache, lc, deps[i], args, fails, depth)
         IN  IF r.kind = "error" THEN r
             ELSE LegacyHook(r.cache, r.calls, deps, i + 1, args, fails, depth)

LegacyGet(cache, lc, suffix, args, fails, depth) ==
    IF depth >= MaxDepth
    THEN LegacyOut(cache, lc, "error", "RecursionError", NoData)
    ELSE IF ResId(suffix, args) \in DOMAIN cache
    THEN LegacyOut(cache, lc, "value", "", cache[ResId(suffix, args)])
    ELSE IF _res[suffix] = NoHook
    THEN LegacyOut(cache, lc, "error", "KeyError", NoData)
    ELSE LET h == _res[suffix]
             k == <<suffix, args>>
             r == LegacyHook(cache, [lc EXCEPT ![k] = @ + 1], HookDeps(h), 1,
                             args, fails, depth + 1)
             v == HookValue(suffix, h, args, r.calls[k])
         IN  IF r.kind = "error" THEN r
             ELSE IF HookMayRaise(h) /\ fails
             THEN LegacyOut(r.cache, r.calls, "error", "HookError", NoData)
             ELSE LegacyOut((ResId(suffix, args) :> v) @@ r.cache, r.calls,
                            "value", "", v)

\* The caller repeats on the legacy pool the call it has made on the pool.
Repeating(op) ==
    /\ pending.op = op
    /\ \A t \in Threads : Idle(t)
    /\ pending' = NoOp
    /\ UNCHANGED <<alive, _cache_limit, _hooks, _pinned, _unpinned_cache,
                   _pinned_cache, stack, ret, calls, clock, memo, lasthit,
                   script, pos, ngets, attrs, appVars>>

\* ResourcePool.__init__ of the legacy pool: it takes no capacity.
LegacyConstruct ==
    /\ Repeating("new")
    /\ legacy = "new"
    /\ legacy' = "ready"
    /\ _res' = [s \in Names |-> NoHook]
    /\ _cache' = << >>
    /\ UNCHANGED <<lcalls, lret>>

\* ResourcePool.register of the legacy pool: it takes no pinned flag.
LegacyRegister ==
    /\ Repeating("register")
    /\ legacy = "ready"
    /\ _res' = [_res EXCEPT ![pending.suffix] = pending.hook]
    /\ UNCHANGED <<legacy, _cache, lcalls, lret>>

\* A top-level get of the legacy pool, or a call of the attribute of the name;
\* the hook that may raise raises if it raised in the call just made.
LegacyCall ==
    /\ \/ Repeating("get")
       \/ Repeating("call")
    /\ legacy = "ready"
    /\ LET r == IF pending.op = "call"
                    /\ ~(_res[pending.suffix] # NoHook /\ is_valid_id(pending.suffix))
                 THEN LegacyOut(_cache, lcalls, "error", "AttributeError", NoData)
                 ELSE IF GetShadowed({n \in Names : _res[n] # NoHook})
                 THEN LegacyOut(_cache, lcalls, "error", "RecursionError", NoData)
                 ELSE LegacyGet(_cache, lcalls, pending.suffix, pending.args,
                                ret[Main].err = "HookError", 0)
       IN  /\ _cache' = r.cache
           /\ lcalls' = r.calls
           /\ lret' = LegacyRet(r.kind, r.err, r.data)
    /\ UNCHANGED <<legacy, _res>>

----------------------------------------------------------------------------
(* The steps a thread and the caller take. *)

\* The steps of the get calls thread t is in.
Running(t) ==
    \/ HookCall(t)
    \/ HookReturn(t)
    \/ HookRaise(t)
    \/ CacheAppend(t)
    \/ IndexLast(t)
    \/ ReadValue(t)
    \/ EvictReturn(t)

Step(t) ==
    \/ \E s \in Names, a \in ArgTuples : GetCall(t, s, a)
    \/ \E s \in Names, a \in ArgTuples : AccessorCall(t, s, a)
    \/ HookCall(t)
    \/ HookReturn(t)
    \/ HookRaise(t)
    \/ CacheAppend(t)
    \/ IndexLast(t)
    \/ ReadValue(t)
    \/ EvictReturn(t)

Next ==
    \/ \E c \in -1..MaxLimit : Construct(c)
    \/ \E s \in Names, h \in Hooks, p \in BOOLEAN : Register(s, h, p)
    \/ Step(Main)
    \/ LegacyConstruct
    \/ LegacyRegister
    \/ LegacyCall

Spec == Init /\ [][Next]_vars

\* Two threads share the pool: each takes the next call of the script when it
\* is idle, and the lines of their get calls interleave.
InitThreads == InitWith(ThreadScripts, "none") /\ AppInit

NextThreads ==
    \/ \E c \in -1..MaxLimit : Construct(c)
    \/ \E s \in Names, h \in Hooks, p \in BOOLEAN : Register(s, h, p)
    \/ \E t \in Threads : Step(t)

ThreadSpec == InitThreads /\ [][NextThreads]_vars

\* The metrics layer, called with the default pool or with a pool of the caller.
MetricsNext ==
    \/ \E text \in Texts, rp \in PoolIds : CallSetValuesForText(text, rp)
    \/ \E c \in 1..Len(Categories), text \in Texts, rp \in PoolIds :
          CallValuesForText(Categories[c], text, rp)
    \/ \E c \in 1..Len(Categories), texts \in {<<1>>, <<2, 1>>}, rp \in PoolIds :
          CallValuesForTexts(Categories[c], texts, rp)
    \/ SetValuesForText
    \/ ValuesForTexts
    \/ ValuesForText
    \/ ValueForText

\* no call made on the pool of the caller script: only the layers above run
InitApp == InitWith({<< >>}, "none") /\ AppInit

MetricsSpec == InitApp /\ [][MetricsNext]_vars

\* The legacy default pool, asked for resources of its texts in any order.
OldNext == \E name \in OldNames, t \in Texts : OldCall(name, t)

OldSpec == InitApp /\ [][OldNext]_vars

\* The default pool, asked for two of its resources, one after the other.
WalkRunning ==
    \/ DefaultHookCall
    \/ DefaultHookReturn

WalkNext ==
    \/ DefaultAsk
    \/ WalkRunning

InitWalk == InitWith({<< >>}, "none") /\ MetricsInit /\ WalkInit(Plans) /\ OldInit

WalkSpec == InitWalk /\ [][WalkNext]_vars

\* a get call that has started keeps running: nothing else holds it up
FairWalkSpec == WalkSpec /\ WF_vars(WalkRunning)

\* The thread that is inside a get call keeps running: the interpreter executes
\* the next line, and a hook that was invoked returns or raises.
FairSpec == Spec /\ WF_vars(Running(Main))

----------------------------------------------------------------------------
(* Helpers of the properties. *)

HasEntry(cache, suffix, args) ==
    \E i \in 1..Len(cache) : cache[i].suffix = suffix /\ cache[i].args = args
FirstEntry(cache, suffix, args) ==
    cache[CHOOSE i \in 1..Len(cache) :
            /\ cache[i].suffix = suffix /\ cache[i].args = args
            /\ \A j \in 1..(i - 1) : ~(cache[j].suffix = suffix /\ cache[j].args = args)]
IsPrefix(s, u) == Len(s) <= Len(u) /\ SubSeq(u, 1, Len(s)) = s
RetKey(t) == <<ret[t].suffix, ret[t].args>>
\* thread t has just been handed the outcome of a get call
Returned(t) == ret'[t] # ret[t]
Finished == pos = Len(script) /\ Idle(Main)
\* suffix is a key of self._hooks
InRegistry(suffix) == _hooks[suffix] # NoHook

----------------------------------------------------------------------------
\* C1 Memoization: a get call for a key whose value was read before, with no
\* eviction of the key's entry and no re-registration of its name since, is a
\* hit: it invokes no hook and returns the very value read before.
Memoization ==
    /\ \A i \in 1..Len(stack[Main]) :
          LET f == stack[Main][i]
          IN  f.m0 # NoData =>
                /\ f.hit
                /\ calls[<<f.suffix, f.args>>] = f.c0
                /\ f.pc = "evict" => f.value = f.m0
    /\ (ret[Main].kind = "value" /\ ret[Main].m0 # NoData) =>
          /\ ret[Main].hit
          /\ ret[Main].inv = 0
          /\ ret[Main].data = ret[Main].m0

\* a second get of a key has returned the value of the first; one invocation
MemoizationWitness ==
    /\ ret[Main].kind = "value"
    /\ ret[Main].m0 # NoData
    /\ ret[Main].data = ret[Main].m0
    /\ ~ret[Main].pin
    /\ calls[RetKey(Main)] = 1
    /\ Len(_unpinned_cache) >= 2

\* C2 Capacity bound: whenever no get call is active and whenever a hook is
\* running, the unpinned tier holds at most _cache_limit entries; inside a get
\* call it holds at most one more, which the removal of line 127 takes away.
CapacityBound ==
    /\ (Idle(Main) \/ Top(Main).pc = "hook") =>
          Len(_unpinned_cache) <= _cache_limit
    /\ Len(_unpinned_cache) <= _cache_limit + 1

\* a hook is running after a nested get that evicted, the tier is full
CapacityBoundWitness ==
    /\ ~Idle(Main)
    /\ Top(Main).pc = "hook"
    /\ Top(Main).dep > 1
    /\ ret[Main].kind = "value"
    /\ ret[Main].evicted # NoEntry
    /\ Len(_unpinned_cache) = _cache_limit
    /\ _cache_limit >= 1

\* C3 Strict FIFO: the unpinned tier changes only by an append at the back of
\* an entry newer than all others, or by the removal of its first entry, which
\* is the one inserted earliest; a get call that is a hit changes nothing.
FifoStep ==
    /\ _unpinned_cache' # _unpinned_cache =>
          \/ /\ Len(_unpinned_cache') = Len(_unpinned_cache) + 1
             /\ IsPrefix(_unpinned_cache, _unpinned_cache')
             /\ \A i \in 1..Len(_unpinned_cache) :
                   _unpinned_cache[i].seq < _unpinned_cache'[Len(_unpinned_cache')].seq
          \/ /\ _unpinned_cache # << >>
             /\ _unpinned_cache' = Tail(_unpinned_cache)
             /\ \A i \in 2..Len(_unpinned_cache) :
                   _unpinned_cache[1].seq < _unpinned_cache[i].seq
    /\ (~Idle(Main) /\ Top(Main).hit) => _unpinned_cache' = _unpinned_cache
    /\ lasthit' # lasthit => _unpinned_cache' = _unpinned_cache

FifoEviction == [][FifoStep]_vars

\* the entry just evicted is the one the latest hit was on, newer ones remain
FifoEvictionWitness ==
    /\ ret[Main].kind = "value"
    /\ ret[Main].evicted # NoEntry
    /\ <<ret[Main].evicted.suffix, ret[Main].evicted.args>> = lasthit
    /\ Len(_unpinned_cache) >= 1
    /\ \A i \in 1..Len(_unpinned_cache) :
          _unpinned_cache[i].seq > ret[Main].evicted.seq

\* C4 Pinned durability: once the pinned tier holds an entry for a key, no step
\* invokes a hook for that key again, the entry stays as it is, every get call
\* of the key that starts is a hit in the pinned tier, and every get call of
\* the key that returns returns the data of that entry.
PinnedStep ==
    \A k \in Keys :
        HasEntry(_pinned_cache, k[1], k[2]) =>
            /\ calls'[k] = calls[k]
            /\ HasEntry(_pinned_cache', k[1], k[2])
            /\ FirstEntry(_pinned_cache', k[1], k[2]) = FirstEntry(_pinned_cache, k[1], k[2])
            /\ (Returned(Main) /\ ret'[Main].kind = "value"
                  /\ <<ret'[Main].suffix, ret'[Main].args>> = k) =>
                  /\ ret'[Main].data = FirstEntry(_pinned_cache, k[1], k[2]).data
                  /\ ret'[Main].pin
            /\ (Len(stack'[Main]) > Len(stack[Main])
                  /\ LET f == stack'[Main][Len(stack'[Main])]
                     IN  <<f.suffix, f.args>> = k) =>
                  /\ stack'[Main][Len(stack'[Main])].hit
                  /\ stack'[Main][Len(stack'[Main])].pin

PinnedDurability == [][PinnedStep]_vars

\* a pinned entry is returned by a hit after evictions from the unpinned tier
PinnedDurabilityWitness ==
    /\ ret[Main].kind = "value"
    /\ ret[Main].pin
    /\ ret[Main].hit
    /\ calls[RetKey(Main)] = 1
    /\ clock > Len(_pinned_cache) + Len(_unpinned_cache)

\* C5 The pinned tier is append-only: every step leaves the pinned tier it
\* found as a prefix of the pinned tier it produces.
PinnedAppendOnly == [][IsPrefix(_pinned_cache, _pinned_cache')]_vars

\* the pinned tier holds two entries in the order of their insertion, after
\* the unpinned tier has lost an entry
PinnedAppendOnlyWitness ==
    /\ Len(_pinned_cache) >= 2
    /\ _pinned_cache[1].seq < _pinned_cache[2].seq
    /\ clock > Len(_pinned_cache) + Len(_unpinned_cache)

\* C6 Unregistered access: no get call runs for a name that is not registered
\* and none returns a value for one; the call ends with the not-registered
\* error and changes neither registry nor tiers nor invokes a hook.
UnregisteredState ==
    /\ \A i \in 1..Len(stack[Main]) : InRegistry(stack[Main][i].suffix)
    /\ ret[Main].kind = "value" => InRegistry(ret[Main].suffix)

UnregisteredStep ==
    (Returned(Main) /\ ret'[Main].err = "NotRegistered") =>
        /\ ~InRegistry(ret'[Main].suffix)
        /\ UNCHANGED <<_hooks, _pinned, _pinned_cache, _unpinned_cache, calls,
                       clock, _cache_limit>>

UnregisteredAccess == []UnregisteredState /\ [][UnregisteredStep]_vars

\* a get of an unregistered name has failed on a pool with cached entries
UnregisteredAccessWitness ==
    /\ Idle(Main)
    /\ ret[Main].err = "NotRegistered"
    /\ ret[Main].unwound = << >>
    /\ Len(_pinned_cache) >= 1

\* C7 Hook failure: when a hook raises, the error reaches the top-level caller,
\* the step changes neither tier, the tier selected by each get call the error
\* went through holds no entry for that call's key, and the next get of such a
\* key invokes the hook again.
HookFailureState ==
    (Idle(Main) /\ ret[Main].err = "HookError") =>
        /\ ret[Main].kind = "error"
        /\ ret[Main].unwound # << >>
        /\ \A i \in 1..Len(ret[Main].unwound) :
              LET u == ret[Main].unwound[i]
              IN  ~HasEntry(Tier(u[3]), u[1], u[2])

HookFailureStep ==
    /\ (Returned(Main) /\ ret'[Main].err = "HookError") =>
          /\ stack'[Main] = << >>
          /\ UNCHANGED <<_pinned_cache, _unpinned_cache>>
    /\ (Idle(Main) /\ ret[Main].err = "HookError" /\ stack'[Main] # << >>) =>
          LET f == stack'[Main][1]
          IN  (\E i \in 1..Len(ret[Main].unwound) :
                  ret[Main].unwound[i][1] = f.suffix /\ ret[Main].unwound[i][2] = f.args)
              => /\ ~f.hit
                 /\ calls'[<<f.suffix, f.args>>] = calls[<<f.suffix, f.args>>] + 1

HookFailure == []HookFailureState /\ [][HookFailureStep]_vars

\* a hook has raised through two get calls, after it had raised before
HookFailureWitness ==
    /\ Idle(Main)
    /\ ret[Main].err = "HookError"
    /\ Len(ret[Main].unwound) = 2
    /\ calls[RetKey(Main)] >= 2

\* C8 Key discrimination: a get call returns data that a hook invocation made
\* for its own suffix and its own arguments; the entry a hit reads has the
\* call's key, and a miss returns what the hook returned in that call.
KeyDiscrimination ==
    /\ ret[Main].kind = "value" =>
          /\ ret[Main].data.s = ret[Main].suffix
          /\ ret[Main].data.a = ret[Main].args
          /\ ~ret[Main].hit =>
                /\ ret[Main].data = ret[Main].made
                /\ ret[Main].inv = 1
    /\ \A i \in 1..Len(stack[Main]) :
          LET f == stack[Main][i]
          IN  (f.pc = "read" /\ f.hit) =>
                /\ At(Tier(f.pin), f.index).suffix = f.suffix
                /\ At(Tier(f.pin), f.index).args = f.args

\* get(R, b) was a miss and returned its own data while (R, a) is cached
KeyDiscriminationWitness ==
    /\ ret[Main].kind = "value"
    /\ ~ret[Main].hit
    /\ ret[Main].data.a = ret[Main].args
    /\ \E a \in ArgTuples :
          /\ a # ret[Main].args
          /\ HasEntry(Tier(ret[Main].pin), ret[Main].suffix, a)
    /\ \E s \in Names :
          /\ s # ret[Main].suffix
          /\ HasEntry(Tier(ret[Main].pin), s, ret[Main].args)

----------------------------------------------------------------------------
\* C9 Recursive dependency sharing (amended): when X is pinned or the capacity
\* is at least 1, get(X, t) followed by get(Y, t), whose hook calls get(X, t),
\* invokes X's hook once in all and Y's hook once.
KeyA == <<"A", <<1>>>>
KeyB == <<"B", <<2>>>>
KeyC3 == <<"C3", << >>>>
DepDone == script \in DepScripts /\ Finished

TierKeys(cache) == [i \in 1..Len(cache) |-> <<cache[i].suffix, cache[i].args>>]
AfterGets(sc, n) == script = sc /\ pos = 4 + n /\ Idle(Main)

FifoScenario ==
    /\ (AfterGets(FifoScript, 3) \/ AfterGets(FifoScriptBCA, 3)) =>
          /\ TierKeys(_unpinned_cache) = <<KeyB, KeyC3>>
          /\ calls[KeyA] = 1 /\ calls[KeyB] = 1 /\ calls[KeyC3] = 1
    /\ AfterGets(FifoScript, 4) =>
          /\ TierKeys(_unpinned_cache) = <<KeyC3, KeyA>>
          /\ calls[KeyA] = 2 /\ calls[KeyB] = 1 /\ calls[KeyC3] = 1
    /\ AfterGets(FifoScript, 6) =>
          calls[KeyA] = 2 /\ calls[KeyB] = 2 /\ calls[KeyC3] = 2
    /\ AfterGets(FifoScriptBCA, 5) =>
          calls[KeyA] = 1 /\ calls[KeyB] = 1 /\ calls[KeyC3] = 1
    /\ AfterGets(FifoScriptBCA, 6) =>
          calls[KeyA] = 2 /\ calls[KeyB] = 1 /\ calls[KeyC3] = 1

\* C10 as stated: after the second round A's hook ran twice, B's and C3's once.
FifoScenarioAsStated ==
    AfterGets(FifoScript, 6) =>
        calls[KeyA] = 2 /\ calls[KeyB] = 1 /\ calls[KeyC3] = 1

\* the second round in the order A, B, C3 is over
FifoScenarioWitness ==
    /\ AfterGets(FifoScript, 6)
    /\ calls[KeyA] = 2
    /\ TierKeys(_unpinned_cache) = <<KeyB, KeyC3>>

----------------------------------------------------------------------------
\* C11 Mixed scenario, capacity 1, unpinned 'len' and pinned 'const': the calls
\* get('const'), get('len','ab'), get('len','abc'), get('len','ab'),
\* get('const') return 42, 2, 3, 2, 42; get('len','abc') evicts the entry of
\* 'ab'; in all the hook of 'len' is invoked 3 times and the hook of 'const' once.
KeyLenAb == <<"len", <<1>>>>
KeyLenAbc == <<"len", <<2>>>>
KeyConst == <<"const", << >>>>
AfterMixed(n) == script = MixedScript /\ pos = 3 + n /\ Idle(Main)
ReturnedValue(t, k, x) ==
    ret[t].kind = "value" /\ RetKey(t) = k /\ ret[t].data.v = x

MixedScenario ==
    /\ AfterMixed(1) => ReturnedValue(Main, KeyConst, 42)
    /\ AfterMixed(2) => ReturnedValue(Main, KeyLenAb, 2)
    /\ AfterMixed(3) =>
          /\ ReturnedValue(Main, KeyLenAbc, 3)
          /\ <<ret[Main].evicted.suffix, ret[Main].evicted.args>> = KeyLenAb
          /\ TierKeys(_unpinned_cache) = <<KeyLenAbc>>
    /\ AfterMixed(4) => ReturnedValue(Main, KeyLenAb, 2) /\ ~ret[Main].hit
    /\ AfterMixed(5) =>
          /\ ReturnedValue(Main, KeyConst, 42)
          /\ ret[Main].hit
          /\ calls[KeyLenAb] + calls[KeyLenAbc] = 3
          /\ calls[KeyConst] = 1
          /\ TierKeys(_pinned_cache) = <<KeyConst>>

\* the fifth call has returned 42 from the pinned tier
MixedScenarioWitness ==
    /\ AfterMixed(5)
    /\ ReturnedValue(Main, KeyConst, 42)
    /\ calls[KeyLenAb] = 2
    /\ TierKeys(_unpinned_cache) = <<KeyLenAb>>

----------------------------------------------------------------------------
\* C12 Construction validates the capacity: a negative capacity ends the
\* construction with the invalid-capacity error and no pool exists, nothing can
\* be registered or got; every capacity C >= 0, 0 included, is accepted and
\* gives a pool with limit C, an empty registry and two empty tiers.
Asked == script[1].limit
EmptyPool ==
    /\ \A n \in Names : _hooks[n] = NoHook
    /\ _pinned = {}
    /\ _unpinned_cache = << >>
    /\ _pinned_cache = << >>

ConstructionValidates ==
    /\ pos >= 1 => alive # "new"
    /\ alive = "invalid" <=> (pos >= 1 /\ Asked < 0)
    /\ alive = "ready" <=> (pos >= 1 /\ Asked >= 0)
    /\ alive = "invalid" =>
          /\ EmptyPool
          /\ pos = 1
          /\ \A t \in Threads : Idle(t) /\ ret[t] = NoRet
    /\ alive = "ready" => _cache_limit = Asked
    /\ (alive = "ready" /\ pos = 1) => EmptyPool

\* the constructor was called with -1 and raised
ConstructionValidatesWitness ==
    /\ alive = "invalid"
    /\ Asked = -1
    /\ pos = 1
    /\ pos < Len(script)

----------------------------------------------------------------------------
\* C13 Duplicate registration: registering a name again is not rejected and
\* the latest registration wins: every get call made after it that returns a
\* value returns a value made by the hook registered for the name when the
\* call was made.
LatestRegistrationWins ==
    ret[Main].kind = "value" => ret[Main].data.h = ret[Main].reg

----------------------------------------------------------------------------
\* C14 Convenience accessor: for a registered name that is an identifier,
\* pool.<name>(args) does what get(name, args) does (same outcome, same hook
\* invocations, same tiers); a registered name that is no identifier gets no
\* attribute on the pool and is still served by get.
IsIdentifier(name) ==
    /\ Len(Spell(name)) >= 1
    /\ Spell(name)[1] \in Letters \cup {"_"}
    /\ \A i \in 2..Len(Spell(name)) : Spell(name)[i] \in Letters \cup Digits \cup {"_"}

AccessorDone(name, pin, via, n) ==
    script = AccessorScript(name, pin, via) /\ pos = 2 + n /\ Idle(Main)

\* the n-th of the two calls has returned the one value the hook made
ServedOnce(name, pin, n) ==
    /\ ret[Main].kind = "value"
    /\ ret[Main].data = HookValue(name, "h1", <<1>>, 1)
    /\ ret[Main].hit = (n = 2)
    /\ calls[<<name, <<1>>>>] = 1
    /\ TierKeys(Tier(pin)) = <<<<name, <<1>>>>>>
    /\ Tier(~pin) = << >>

AccessorServes ==
    \A name \in Names, pin \in BOOLEAN, n \in 1..2 :
        /\ AccessorDone(name, pin, "get", n) => ServedOnce(name, pin, n)
        /\ (AccessorDone(name, pin, "call", n) /\ IsIdentifier(name)) =>
              ServedOnce(name, pin, n)

AccessorEquivalence ==
    /\ AccessorServes
    /\ \A name \in Names :
          InRegistry(name) => (name \in attrs <=> IsIdentifier(name))

----------------------------------------------------------------------------
\* C15 Registration stores the pinned flag of the latest call: a get call
\* looks up and inserts in the pinned tier if the latest register call of its
\* name had pinned = true and in the unpinned tier if it had pinned = false,
\* also after an earlier registration of the name with pinned = true.
Registrations(name) ==
    {i \in 1..pos : script[i].op = "register" /\ script[i].suffix = name}
LatestPin(name) ==
    script[CHOOSE i \in Registrations(name) :
              \A j \in Registrations(name) : j <= i].pin

LatestPinnedFlag ==
    \A i \in 1..Len(stack[Main]) :
        stack[Main][i].pin = LatestPin(stack[Main][i].suffix)

----------------------------------------------------------------------------
\* C16 Termination on acyclic hook graphs: when the hooks registered call get
\* only along an acyclic graph and every hook returns or raises, every get call
\* ends, with a value or an error and not by exhausting the stack, whatever
\* the capacity, 0 and capacities below the length of the chain included.
DepsOf(name) == {HookDeps(_hooks[name])[i] : i \in 1..Len(HookDeps(_hooks[name]))}

RECURSIVE ReachIn(_, _)
ReachIn(S, k) ==
    IF k = 0 THEN S
    ELSE ReachIn(S \cup UNION {DepsOf(n) : n \in S}, k - 1)

Acyclic == \A n \in Names : n \notin ReachIn(DepsOf(n), Cardinality(Names))

Termination ==
    (~Idle(Main) /\ Acyclic) ~> (Idle(Main) /\ ret[Main].err # "RecursionError")

\* capacity 0, a chain of three: the innermost of three nested calls runs
TerminationWitness ==
    /\ Acyclic
    /\ _cache_limit = 0
    /\ Len(stack[Main]) = 3
    /\ Top(Main).pc = "evict"

----------------------------------------------------------------------------
\* C17 No cycle detection: with the hook of A calling get('B', t) and the hook
\* of B calling get('A', t), a get call of A or B never returns a value and no
\* entry of A or B is ever inserted; the calls nest, every one a miss that
\* invokes its hook, until the depth at which the interpreter gives up.
CycleRuns == \E c \in 0..MaxLimit : script = <<NewOp(c)>> \o CycleSetup
InCycle(name) == name \in {"A", "B"}

NoCycleDetection ==
    CycleRuns =>
        /\ \A i \in 1..Len(_unpinned_cache) : ~InCycle(_unpinned_cache[i].suffix)
        /\ \A i \in 1..Len(_pinned_cache) : ~InCycle(_pinned_cache[i].suffix)
        /\ ret[Main].kind = "value" => ~InCycle(ret[Main].suffix)
        /\ \A i \in 1..Len(stack[Main]) :
              LET f == stack[Main][i]
              IN  InCycle(f.suffix) =>
                    /\ ~f.hit
                    /\ f.pc = "hook"
                    /\ i < Len(stack[Main]) =>
                          /\ stack[Main][i + 1].suffix # f.suffix
                          /\ InCycle(stack[Main][i + 1].suffix)
                          /\ stack[Main][i + 1].args = f.args
        /\ (Idle(Main) /\ ret[Main].kind = "error" /\ InCycle(ret[Main].suffix)) =>
              /\ ret[Main].err = "RecursionError"
              /\ Len(ret[Main].unwound) = MaxDepth

\* get(A, t) has ended with the stack-depth failure, MaxDepth calls deep
NoCycleDetectionWitness ==
    /\ CycleRuns
    /\ Idle(Main)
    /\ ret[Main].err = "RecursionError"
    /\ Len(ret[Main].unwound) = MaxDepth
    /\ ret[Main].unwound[1][1] = "A"
    /\ calls[<<"A", ret[Main].unwound[1][2]>>] >= 2
    /\ _unpinned_cache = << >>

----------------------------------------------------------------------------
\* C18 Check-then-act race: when two threads call get for one key and both
\* scan before either appends, both calls are misses, the hook is invoked
\* twice, and once both have appended the tier, pinned or unpinned, holds two
\* entries with that key.
RaceKey == <<"A", <<1>>>>
Copies(cache, k) ==
    Cardinality({i \in 1..Len(cache) : <<cache[i].suffix, cache[i].args>> = k})
BothMissed ==
    \A t \in Threads :
        /\ ~Idle(t)
        /\ <<Top(t).suffix, Top(t).args>> = RaceKey
        /\ ~Top(t).hit

CheckThenActRace ==
    (script \in RaceScripts /\ BothMissed) =>
        /\ calls[RaceKey] = 2
        /\ (\A t \in Threads : Top(t).pc \in {"index", "read", "evict"}) =>
              Copies(Tier(Top(Main).pin), RaceKey) = 2

\* both threads have returned, the pinned tier holds the key twice
CheckThenActRaceWitness ==
    /\ script \in RaceScripts
    /\ \A t \in Threads : Idle(t) /\ ret[t].kind = "value" /\ ~ret[t].hit
    /\ Copies(_pinned_cache, RaceKey) = 2
    /\ calls[RaceKey] = 2

\* C19 Thread use as documented: when two threads call get with different
\* keys, each call returns a value its own hook made for its own arguments,
\* and no call fails with an index out of range.
ThreadSafeGet ==
    script \in TwoKeysScripts =>
        \A t \in Threads :
            /\ ret[t].kind = "value" =>
                  ret[t].data.s = ret[t].suffix /\ ret[t].data.a = ret[t].args
            /\ ret[t].err # "IndexError"

----------------------------------------------------------------------------
\* C20 Storage refinement: as long as no name was registered twice and the
\* distinct unpinned keys asked for are at most _cache_limit, so that nothing
\* is evicted, every call made on both pools has the same outcome on the
\* list-scanning pool and on the dict-keyed legacy pool, the same value or an
\* error in both, and every hook was invoked the same number of times by both.
UnpinnedAsked == {k \in Keys : calls[k] > 0 /\ k[1] \notin _pinned}
NoReregistration == \A name \in Names : Cardinality(Registrations(name)) <= 1
Compared ==
    /\ alive = "ready"
    /\ legacy = "ready"
    /\ pending = NoOp
    /\ Idle(Main)
    /\ NoReregistration
    /\ Cardinality(UnpinnedAsked) <= _cache_limit

StorageRefinement ==
    Compared =>
        /\ clock = Len(_pinned_cache) + Len(_unpinned_cache)
        /\ lcalls = calls
        /\ lret.kind = ret[Main].kind
        /\ lret.data = ret[Main].data
        /\ ret[Main].err \in {"HookError", "RecursionError", "AttributeError"} =>
              lret.err = ret[Main].err

\* both pools have served a nested get from their stores, two tiers in use
StorageRefinementWitness ==
    /\ Compared
    /\ ret[Main].kind = "value"
    /\ ret[Main].hit
    /\ lret.data = ret[Main].data
    /\ Len(_unpinned_cache) >= 2
    /\ Len(_pinned_cache) >= 1
    /\ \E k \in Keys : HookDeps(_hooks[k[1]]) # << >> /\ calls[k] = 1

----------------------------------------------------------------------------
\* C21 The pool passed by the caller is the pool used: while a call of
\* Category.values_for_text, Category.values_for_texts or
\* MetricsSet.values_for_text with an rp that is not the default pool is
\* active, every metric asks rp for its resource and the tiers of the default
\* pool stay as they were when the call was made.
PassedPoolUsed ==
    (mstack # << >> /\ mstack[1].rp # default_rp) =>
        /\ \A i \in 1..Len(mstack) : mstack[i].rp = mstack[1].rp
        /\ pools[default_rp] = mstack[1].d0

----------------------------------------------------------------------------
\* the step in which the innermost get call of thread t returns a value
Returns(t) ==
    /\ ~Idle(t)
    /\ stack'[t] = Below(t)
    /\ ret'[t].kind = "value"

\* the get call f ran without a nested get: a hit, or a hook that calls none
NoNestedGet(f) == f.hit \/ HookDeps(f.hook) = << >>

\* C22 Tier isolation: when a get call for a pinned name whose hook makes no
\* nested get returns, the unpinned tier is as it was at entry and nothing was
\* removed from the pinned tier, also on a miss; when a get call for an
\* unpinned name whose hook makes no nested get returns, the pinned tier is as
\* it was at entry; and in every step a tier grows only while the running get
\* call is for a name whose pinned flag selects that tier.
TierIsolation ==
    [][/\ (Returns(Main) /\ NoNestedGet(Top(Main))) =>
            IF Top(Main).suffix \in _pinned
            THEN /\ _unpinned_cache' = Top(Main).u0
                 /\ IsPrefix(Top(Main).p0, _pinned_cache')
            ELSE _pinned_cache' = Top(Main).p0
       /\ Len(_pinned_cache') > Len(_pinned_cache) =>
            ~Idle(Main) /\ Top(Main).suffix \in _pinned
       /\ Len(_unpinned_cache') > Len(_unpinned_cache) =>
            ~Idle(Main) /\ Top(Main).suffix \notin _pinned]_vars

\* A pinned miss with a full unpinned tier has returned: the pinned tier holds
\* its entry and the unpinned tier is still full.
TierIsolationWitness ==
    /\ Idle(Main)
    /\ ret[Main].kind = "value" /\ ret[Main].pin /\ ~ret[Main].hit
    /\ HasEntry(_pinned_cache, ret[Main].suffix, ret[Main].args)
    /\ _unpinned_cache # << >>
    /\ Len(_unpinned_cache) = _cache_limit

\* C23 A cache hit changes nothing: from the step that finds the entry to the
\* step that returns its value no hook is invoked, no entry is removed, and
\* the registry, the pinned flags and both tiers stay as they were at entry.
HitChangesNothing ==
    [][/\ (~Idle(Main) /\ Top(Main).hit) =>
            /\ UNCHANGED <<_hooks, _pinned, _unpinned_cache, _pinned_cache, calls>>
            /\ _unpinned_cache = Top(Main).u0
            /\ _pinned_cache = Top(Main).p0
       /\ (~Idle(Main)' /\ Len(stack'[Main]) > Len(stack[Main]) /\ Top(Main)'.hit) =>
            UNCHANGED <<_hooks, _pinned, _unpinned_cache, _pinned_cache, calls>>
       /\ (Returns(Main) /\ Top(Main).hit) =>
            /\ ret'[Main].inv = 0
            /\ ret'[Main].evicted = NoEntry]_vars

\* A hit in a full unpinned tier has returned and the tier is still full.
HitChangesNothingWitness ==
    /\ Idle(Main)
    /\ ret[Main].kind = "value" /\ ret[Main].hit /\ ~ret[Main].pin
    /\ _cache_limit > 0
    /\ Len(_unpinned_cache) = _cache_limit
    /\ HasEntry(_unpinned_cache, ret[Main].suffix, ret[Main].args)

\* the names the hook h asks get for
DepNames(h) == {HookDeps(h)[i] : i \in 1..Len(HookDeps(h))}

\* C24 With a capacity of at least 1, when a get call for an unpinned name
\* returns a value, the entry of its key is in the unpinned tier and holds that
\* value, also when the hook made nested gets that inserted and evicted; the
\* same get made again at once is a hit; the entries of the names the hook
\* depends on stand before the entry of the dependent, and an entry that is
\* evicted is older than every entry that stays.
ReturnedEntryPresent ==
    [][/\ (Returns(Main) /\ ~Top(Main).pin /\ _cache_limit >= 1) =>
            LET f == Top(Main)
                i == _get_index(_unpinned_cache', f.suffix, f.args)
            IN  /\ i # None
                /\ At(_unpinned_cache', i).data = ret'[Main].data
                /\ \A j \in 1..Len(_unpinned_cache') :
                       (/\ _unpinned_cache'[j].suffix \in DepNames(ret'[Main].data.h)
                        /\ _unpinned_cache'[j].args = f.args) => j < i + 1
       /\ (Returns(Main) /\ ret'[Main].evicted # NoEntry) =>
            \A j \in 1..Len(_unpinned_cache') :
                _unpinned_cache'[j].seq > ret'[Main].evicted.seq
       /\ (/\ Idle(Main) /\ ~Idle(Main)'
           /\ ret[Main].kind = "value" /\ ~ret[Main].pin /\ _cache_limit >= 1
           /\ <<Top(Main)'.suffix, Top(Main)'.args>> = RetKey(Main)
           /\ ret[Main].suffix \notin _pinned) => Top(Main)'.hit]_vars

\* At capacity 1 a get call whose hook made a nested get has returned: the
\* nested entry was inserted and evicted, the tier holds the entry returned.
ReturnedEntryPresentWitness ==
    /\ Idle(Main)
    /\ _cache_limit = 1
    /\ ret[Main].kind = "value" /\ ~ret[Main].pin /\ ~ret[Main].hit
    /\ DepNames(ret[Main].data.h) # {}
    /\ ret[Main].evicted.suffix \in DepNames(ret[Main].data.h)
    /\ TierKeys(_unpinned_cache) = <<RetKey(Main)>>

\* C25 Tier and pinned flag agree: after any sequence of register and get
\* calls, re-registrations with another pinned flag included, the name of
\* every entry of the pinned tier is pinned now and the name of every entry
\* of the unpinned tier is not pinned now.
TierAgreesWithFlag ==
    /\ \A i \in 1..Len(_pinned_cache) : _pinned_cache[i].suffix \in _pinned
    /\ \A i \in 1..Len(_unpinned_cache) : _unpinned_cache[i].suffix \notin _pinned

\* C26 No duplicate keys: in single-threaded use with an acyclic hook graph
\* neither tier ever holds two entries with the same name and arguments.
NoDuplicateKeys ==
    Acyclic =>
        \A k \in Keys : Copies(_unpinned_cache, k) <= 1 /\ Copies(_pinned_cache, k) <= 1

\* A key was asked for again while the unpinned tier held two entries: the
\* call was a hit and the tier still holds two different keys.
NoDuplicateKeysWitness ==
    /\ Acyclic
    /\ Idle(Main)
    /\ ret[Main].kind = "value" /\ ret[Main].hit /\ ~ret[Main].pin
    /\ Len(_unpinned_cache) = 2
    /\ TierKeys(_unpinned_cache)[1] # TierKeys(_unpinned_cache)[2]

CapacityZero ==
    [][_cache_limit = 0 =>
         /\ (Len(stack'[Main]) > Len(stack[Main]) /\ ~Top(Main)'.pin) =>
               /\ ~Top(Main)'.hit
               /\ calls'[<<Top(Main)'.suffix, Top(Main)'.args>>] =
                     calls[<<Top(Main)'.suffix, Top(Main)'.args>>] + 1
         /\ (Returns(Main) /\ ~Top(Main).pin) =>
               /\ ret'[Main].data = Top(Main).made
               /\ ret'[Main].data # NoData
               /\ ret'[Main].data.s = Top(Main).suffix
               /\ ret'[Main].data.a = Top(Main).args
               /\ ret'[Main].inv >= 1
               /\ _unpinned_cache' = << >>
         /\ (Returns(Main) /\ Top(Main).pin) =>
               /\ HasEntry(_pinned_cache', Top(Main).suffix, Top(Main).args)
               /\ ret'[Main].data =
                     At(_pinned_cache',
                        _get_index(_pinned_cache', Top(Main).suffix, Top(Main).args)).data
         /\ Idle(Main) => _unpinned_cache = << >>]_vars

\* At capacity 0 an unpinned key was asked for twice and its hook ran twice,
\* while a pinned entry is kept.
CapacityZeroWitness ==
    /\ alive = "ready" /\ _cache_limit = 0
    /\ Idle(Main)
    /\ ret[Main].kind = "value" /\ ~ret[Main].pin
    /\ calls[RetKey(Main)] = 2
    /\ ret[Main].data.n = 2
    /\ _unpinned_cache = << >>
    /\ _pinned_cache # << >>

\* the names whose get call is active on the default pool, outermost first
Nested == [i \in 1..Len(dstack) |-> dstack[i].name]

\* the names the hook of name asks get for
DefaultDepNames(name) == {DefaultDeps(name)[i] : i \in 1..Len(DefaultDeps(name))}

\* the names reached from S in at most k further nested get calls
RECURSIVE DefaultReach(_, _)
DefaultReach(S, k) ==
    IF k = 0 THEN S
    ELSE DefaultReach(S \cup UNION {DefaultDepNames(n) : n \in S}, k - 1)

\* C29 The default pool is well-founded: no resource of DefaultResourcePool
\* is reached from its own hook through nested get calls, so the active get
\* calls are always for different names, each asked for by the hook of the
\* call that encloses it, the nesting never reaches the depth at which the
\* interpreter gives up, and every get call that has started returns a value
\* (the external tools being taken to return).
DefaultWellFounded ==
    /\ [](/\ \A n \in DefaultNames :
               n \notin DefaultReach(DefaultDepNames(n), Cardinality(DefaultNames))
          /\ \A i, j \in 1..Len(dstack) : i # j => Nested[i] # Nested[j]
          /\ \A i \in 2..Len(dstack) : Nested[i] \in DefaultDepNames(Nested[i - 1])
          /\ Len(dstack) < MaxNesting
          /\ dret # "RecursionError")
    /\ (dstack # << >>) ~> (dstack = << >> /\ dret = "value")

\* The deepest nesting: get('token_types') has led to get('paragraphs'),
\* eight calls deep.
DefaultWellFoundedWitness ==
    /\ Len(dstack) = 8
    /\ Nested[1] = "token_types"
    /\ Nested[8] = "paragraphs"
    /\ DefaultDeps(Nested[8]) = << >>

\* C30 The hooks of the legacy default pool leave the cached values of the
\* resources they depend on as they were: once get('content_words', t) has
\* been called, the list held for ('tagged_sentences', t) is still the list of
\* the sentences of (token, tag) pairs, and once get('cw_freq', t) has been
\* called, the list held for ('content_words', t) is still the list of the
\* content words of each sentence.
OldDependenciesIntact ==
    \A t \in Texts :
        /\ held[<<"content_words", t>>] # NoRef =>
              heap[held[<<"tagged_sentences", t>>]] = tag_sents(WordsOf(t))
        /\ held[<<"cw_freq", t>>] # NoRef =>
              heap[held[<<"content_words", t>>]] =
                 [i \in 1..Len(WordsOf(t)) |-> SelectContent(tag_sents(WordsOf(t))[i])]

====
